---- MODULE Spec2Model ----
(***************************************************************************)
(* A model of the encrypted regex evaluator: the pattern parser            *)
(* (src/src/regex/parser.rs), the branch builder and has_match             *)
(* (src/src/regex/engine.rs) and the execution context with its structural *)
(* cache (src/src/regex/execution.rs).                                     *)
(*                                                                         *)
(* Ciphertexts are modelled by the 8-bit plaintext they decrypt to (a      *)
(* radix ciphertext of 4 blocks of 2 bits); the FHE primitives by their    *)
(* plaintext meaning on 8-bit integers.                                    *)
(***************************************************************************)
EXTENDS Integers, Sequences, FiniteSets, TLC

(***************************************************************************)
(* Bytes.  A pattern or a content is a sequence of one-character strings;  *)
(* as_bytes turns it into the sequence of its ASCII codes (96 is the       *)
(* backtick).                                                              *)
(***************************************************************************)
AsciiTable ==
    << <<" ", 32>>, <<"!", 33>>, <<"\"", 34>>, <<"#", 35>>, <<"$", 36>>,
       <<"%", 37>>, <<"&", 38>>, <<"'", 39>>, <<"(", 40>>, <<")", 41>>,
       <<"*", 42>>, <<"+", 43>>,
       <<",", 44>>, <<"-", 45>>, <<".", 46>>, <<"/", 47>>,
       <<"0", 48>>, <<"1", 49>>, <<"2", 50>>, <<"3", 51>>, <<"4", 52>>,
       <<"5", 53>>, <<"6", 54>>, <<"7", 55>>, <<"8", 56>>, <<"9", 57>>,
       <<":", 58>>, <<";", 59>>, <<"?", 63>>, <<"@", 64>>,
       <<"A", 65>>, <<"Z", 90>>, <<"[", 91>>, <<"\\", 92>>, <<"]", 93>>,
       <<"^", 94>>, <<"_", 95>>,
       <<"a", 97>>, <<"b", 98>>, <<"c", 99>>, <<"d", 100>>, <<"z", 122>>,
       <<"{", 123>>, <<"|", 124>>, <<"}", 125>>, <<"~", 126>> >>

b(ch) == (CHOOSE p \in {AsciiTable[i] : i \in DOMAIN AsciiTable} : p[1] = ch)[2]

as_bytes(s) == [i \in DOMAIN s |-> b(s[i])]

IsLetter(c) == (c >= 65 /\ c <= 90) \/ (c >= 97 /\ c <= 122)

IsDigit(c) == c >= 48 /\ c <= 57

NON_ESCAPABLE_SYMBOLS ==
    { b("&"), b(";"), b(":"), b(","), 96, b("~"), b("-"), b("_"),
      b("!"), b("@"), b("#"), b("%"), b("'"), b("\"") }

(***************************************************************************)
(* RegExpr, the AST.  Option<usize> is <<>> for None and <<n>> for Some(n).*)
(***************************************************************************)
None == << >>

Some(n) == << n >>

SOF == [type |-> "SOF"]

EOF == [type |-> "EOF"]

Char(c) == [type |-> "Char", c |-> c]

AnyChar == [type |-> "AnyChar"]

Not(not_re) == [type |-> "Not", not_re |-> not_re]

Between(from, to) == [type |-> "Between", from |-> from, to |-> to]

Range(cs) == [type |-> "Range", cs |-> cs]

Either(l_re, r_re) == [type |-> "Either", l_re |-> l_re, r_re |-> r_re]

Optional(opt_re) == [type |-> "Optional", opt_re |-> opt_re]

Repeated(repeat_re, at_least, at_most) ==
    [type |-> "Repeated", repeat_re |-> repeat_re,
     at_least |-> at_least, at_most |-> at_most]

Seq_(re_xs) == [type |-> "Seq", re_xs |-> re_xs]

(***************************************************************************)
(* Parser results.  A combine parser either succeeds with a value and the  *)
(* remaining input, fails (cm: after committing, i.e. having consumed      *)
(* input, so that choice and many do not recover), or the program panics   *)
(* inside a map closure.                                                   *)
(***************************************************************************)
Ok(v, rest) == [k |-> "ok", v |-> v, rest |-> rest]

Err(cm) == [k |-> "err", cm |-> cm]

Panic == [k |-> "panic"]

\* attempt(p): a failure of p is reported as not having consumed anything.
attempt(r) == IF r.k = "err" THEN Err(FALSE) ELSE r

\* choice((p, q)): q is tried only when p failed without committing.
choice(r, q) == IF r.k = "err" /\ ~r.cm THEN q ELSE r

\* The failure of the second parser of a sequence whose first parser r
\* succeeded on input: committed when r consumed or the failure itself is.
SeqErr(input, r, e) == Err(e.cm \/ Len(r.rest) < Len(input))

byte(c, input) ==
    IF input # << >> /\ Head(input) = c THEN Ok(c, Tail(input)) ELSE Err(FALSE)

letter(input) ==
    IF input # << >> /\ IsLetter(Head(input))
    THEN Ok(Head(input), Tail(input)) ELSE Err(FALSE)

digit(input) ==
    IF input # << >> /\ IsDigit(Head(input))
    THEN Ok(Head(input), Tail(input)) ELSE Err(FALSE)

any(input) ==
    IF input # << >> THEN Ok(Head(input), Tail(input)) ELSE Err(FALSE)

one_of(set, input) ==
    IF input # << >> /\ Head(input) \in set
    THEN Ok(Head(input), Tail(input)) ELSE Err(FALSE)

\* optional(byte(c)): Some(c) or None, never a failure.
optional_byte(c, input) ==
    IF input # << >> /\ Head(input) = c
    THEN Ok(Some(c), Tail(input)) ELSE Ok(None, input)

RECURSIVE many_digit(_)
many_digit(input) ==
    IF input # << >> /\ IsDigit(Head(input))
    THEN LET m == many_digit(Tail(input))
         IN  Ok(<<Head(input)>> \o m.v, m.rest)
    ELSE Ok(<< >>, input)

RECURSIVE many_letter(_)
many_letter(input) ==
    IF input # << >> /\ IsLetter(Head(input))
    THEN LET m == many_letter(Tail(input))
         IN  Ok(<<Head(input)>> \o m.v, m.rest)
    ELSE Ok(<< >>, input)

\* many1(byte::letter())
many1_letter(input) ==
    LET m == many_letter(input)
    IN  IF m.v = << >> THEN Err(FALSE) ELSE m

(***************************************************************************)
(* parse_digits: str::parse::<usize>().unwrap() of the digits.  It panics  *)
(* on the empty string and on a number above usize::MAX (64 bit); the      *)
(* overflow is decided on the digits, without computing the number.        *)
(***************************************************************************)
USIZE_MAX_DIGITS == <<1,8,4,4,6,7,4,4,0,7,3,7,0,9,5,5,1,6,1,5>>

RECURSIVE StripZeros(_)
StripZeros(ds) ==
    IF ds # << >> /\ Head(ds) = 0 THEN StripZeros(Tail(ds)) ELSE ds

RECURSIVE LexGreater(_, _)
LexGreater(xs, ys) ==
    IF xs = << >> THEN FALSE
    ELSE IF Head(xs) # Head(ys) THEN Head(xs) > Head(ys)
    ELSE LexGreater(Tail(xs), Tail(ys))

OverflowsUsize(ds) ==
    LET s == StripZeros(ds)
    IN  \/ Len(s) > Len(USIZE_MAX_DIGITS)
        \/ Len(s) = Len(USIZE_MAX_DIGITS) /\ LexGreater(s, USIZE_MAX_DIGITS)

RECURSIVE DecimalValue(_)
DecimalValue(ds) ==
    IF ds = << >> THEN 0
    ELSE 10 * DecimalValue(SubSeq(ds, 1, Len(ds) - 1)) + ds[Len(ds)]

\* [k |-> "ok", v |-> n] or Panic
parse_digits(digits) ==
    LET ds == [i \in DOMAIN digits |-> digits[i] - 48]
    IN  IF ds = << >> \/ OverflowsUsize(ds) THEN Panic
        ELSE [k |-> "ok", v |-> DecimalValue(ds)]

(***************************************************************************)
(* The grammar: regex, term, factor, atom, range, repeated.  Each parser   *)
(* is written as the parser it runs first, followed by an operator that    *)
(* continues from that parser's result.                                    *)
(***************************************************************************)
RECURSIVE regex(_), term(_), many_factor(_), factor(_), atom(_), range(_),
          repeated(_)

\* between(open, close, p) once open is consumed: r is p's result.
Closed(r, close) ==
    IF r.k = "panic" THEN Panic
    ELSE IF r.k = "err" THEN Err(TRUE)
    ELSE LET e == byte(close, r.rest)
         IN  IF e.k = "ok" THEN Ok(r.v, e.rest) ELSE Err(TRUE)

\* p.map(f) for a constructor f applied by the caller: the value v replaces
\* the value of the successful result r
Mapped(r, v) == IF r.k = "ok" THEN Ok(v, r.rest) ELSE r

\* (byte::letter(), byte(b'-'), byte::letter())
letter_dash_letter(input) ==
    LET from == letter(input)
    IN  IF from.k # "ok" THEN from
        ELSE LET dash == byte(b("-"), from.rest)
             IN  IF dash.k # "ok" THEN SeqErr(input, from, dash)
                 ELSE LET to == letter(dash.rest)
                      IN  IF to.k # "ok" THEN SeqErr(input, from, to)
                          ELSE Ok(Between(from.v, to.v), to.rest)

\* byte(b'^').with(range()).map(Not) once '^' is consumed: r is range's result
negated(r) ==
    IF r.k = "ok" THEN Ok(Not(r.v), r.rest)
    ELSE IF r.k = "panic" THEN Panic ELSE Err(TRUE)

\* many1(byte::letter()).map(|cs| Range { cs })
letters(cs) == IF cs.k = "ok" THEN Ok(Range(cs.v), cs.rest) ELSE cs

range(input) ==
    IF byte(b("^"), input).k = "ok"
    THEN negated(range(Tail(input)))
    ELSE choice(attempt(letter_dash_letter(input)),
                letters(many1_letter(input)))

\* attempt(byte(b'\\').with(parser::token::any()))
escaped(input) ==
    IF byte(b("\\"), input).k = "ok" THEN attempt(any(Tail(input)))
    ELSE Err(FALSE)

\* a byte parser's result r mapped to RegExpr::Char
char_of(r) == IF r.k = "ok" THEN Ok(Char(r.v), r.rest) ELSE r

atom(input) ==
    choice(Mapped(byte(b("."), input), AnyChar),
    choice(char_of(escaped(input)),
    choice(char_of(choice(letter(input),
                          one_of(NON_ESCAPABLE_SYMBOLS, input))),
    choice(IF byte(b("["), input).k = "ok"
           THEN Closed(range(Tail(input)), b("]")) ELSE Err(FALSE),
           IF byte(b("("), input).k = "ok"
           THEN Closed(regex(Tail(input)), b(")")) ELSE Err(FALSE)))))

\* between(byte(b'{'), byte(b'}'), many(byte::digit()))
braces_digits(input) ==
    IF byte(b("{"), input).k = "ok"
    THEN Closed(many_digit(Tail(input)), b("}")) ELSE Err(FALSE)

\* between(byte(b'{'), byte(b'}'), (many(digit), byte(b','), many(digit)))
braces_digits_comma_digits(input) ==
    IF byte(b("{"), input).k = "ok"
    THEN LET at_least_digits == many_digit(Tail(input))
             comma == byte(b(","), at_least_digits.rest)
             at_most_digits == many_digit(comma.rest)
         IN  IF comma.k # "ok" THEN Err(TRUE)
             ELSE Closed(Ok(<<at_least_digits.v, at_most_digits.v>>,
                            at_most_digits.rest), b("}"))
    ELSE Err(FALSE)

\* line 250-254: attempt((atom(), choice((byte(b'*'), byte(b'+'))))).map(..)
star_or_plus(re) ==
    LET c == choice(byte(b("*"), re.rest), byte(b("+"), re.rest))
    IN  IF c.k # "ok" THEN Err(FALSE)
        ELSE Ok(Repeated(re.v, IF c.v = b("*") THEN None ELSE Some(1), None),
                c.rest)

\* exactly with the upper bound left open
exactly_without_at_most(re) ==
    LET repeat_digits == braces_digits(re.rest)
        repeat == parse_digits(repeat_digits.v)
    IN  IF repeat_digits.k # "ok" THEN Err(FALSE)
        ELSE IF repeat.k = "panic" THEN Panic
        ELSE Ok(Repeated(re.v, Some(repeat.v), None), repeat_digits.rest)

\* line 255-266: attempt((atom(), between('{', '}', many(digit)))).map(..)
exactly(re) ==
    LET repeat_digits == braces_digits(re.rest)
        repeat == parse_digits(repeat_digits.v)
    IN  IF repeat_digits.k # "ok" THEN Err(FALSE)
        ELSE IF repeat.k = "panic" THEN Panic
        ELSE Ok(Repeated(re.v, Some(repeat.v), Some(repeat.v)),
                repeat_digits.rest)

\* line 267-293: (atom(), between('{', '}', (digits, ',', digits))).map(..)
at_least_at_most(re) ==
    LET digits == braces_digits_comma_digits(re.rest)
        at_least_digits == digits.v[1]
        at_most_digits == digits.v[2]
        at_least == parse_digits(at_least_digits)
        at_most == parse_digits(at_most_digits)
    IN  IF digits.k # "ok" THEN Err(TRUE)
        ELSE IF \/ Len(at_least_digits) # 0 /\ at_least.k = "panic"
                \/ Len(at_most_digits) # 0 /\ at_most.k = "panic"
        THEN Panic
        ELSE Ok(Repeated(re.v,
                         IF Len(at_least_digits) = 0 THEN None
                         ELSE Some(at_least.v),
                         IF Len(at_most_digits) = 0 THEN None
                         ELSE Some(at_most.v)),
                digits.rest)

\* repeated() after its atom: re is the result of atom() on the input, the
\* same in the three alternatives
repeated_of(re) ==
    IF re.k # "ok" THEN re
    ELSE choice(star_or_plus(re), choice(exactly(re), at_least_at_most(re)))

repeated(input) == repeated_of(atom(input))

\* attempt((atom(), byte(b'?'))).map(Optional) after its atom
optional_of(re) ==
    LET question == byte(b("?"), re.rest)
    IN  IF re.k # "ok" THEN attempt(re)
        ELSE IF question.k # "ok" THEN Err(FALSE)
        ELSE Ok(Optional(re.v), question.rest)

\* factor() given re, the result of atom() on the input
factor_of(input, re) ==
    IF re.k = "panic" THEN Panic
    ELSE choice(optional_of(re), choice(attempt(repeated(input)), re))

factor(input) == factor_of(input, atom(input))

\* many(factor()) after a successful factor f: m is the result on the rest
many_cons(f, m) ==
    IF m.k = "ok" THEN Ok(<<f.v>> \o m.v, m.rest)
    ELSE IF m.k = "panic" THEN Panic ELSE Err(TRUE)

\* many(factor()) given f, the result of factor() on the input
many_next(input, f) ==
    IF f.k = "panic" THEN Panic
    ELSE IF f.k = "err" THEN (IF f.cm THEN Err(TRUE) ELSE Ok(<< >>, input))
    ELSE many_cons(f, many_factor(f.rest))

many_factor(input) == many_next(input, factor(input))

\* term_of with a single factor wrapped in a Seq like any other number
term_of_always_seq(re_xs) ==
    IF re_xs.k # "ok" THEN re_xs ELSE Ok(Seq_(re_xs.v), re_xs.rest)

\* line 179-185: the closure of term
term_of(re_xs) ==
    IF re_xs.k # "ok" THEN re_xs
    ELSE Ok(IF Len(re_xs.v) = 1 THEN re_xs.v[1] ELSE Seq_(re_xs.v),
            re_xs.rest)

term(input) == term_of(many_factor(input))

\* (term(), byte(b'|'), regex()).map(Either) once term and '|' succeeded;
\* when regex fails the choice falls back to term(), whose result is l_re
either_of(l_re, r_re) ==
    IF r_re.k = "panic" THEN Panic
    ELSE IF r_re.k = "ok" THEN Ok(Either(l_re.v, r_re.v), r_re.rest)
    ELSE l_re

\* regex_() given l_re, the result of term() on the input
regex_of(l_re) ==
    IF l_re.k # "ok" THEN l_re
    ELSE IF byte(b("|"), l_re.rest).k # "ok" THEN l_re
    ELSE either_of(l_re, regex(Tail(l_re.rest)))

regex(input) == regex_of(term(input))

(***************************************************************************)
(* parse.  anchored is the parser of line 107-111, wrap the closure of     *)
(* line 112-125, parse the whole function: ok with the AST, err with a     *)
(* message, or panic.                                                      *)
(***************************************************************************)
\* (optional(byte(b'^')), regex(), optional(byte(b'$'))) given the results
\* of the first two
anchors_of(sof, re) ==
    IF re.k # "ok" THEN re
    ELSE LET eof == optional_byte(b("$"), re.rest)
         IN  Ok(<<sof.v, re.v, eof.v>>, eof.rest)

sof_regex_eof(input) ==
    anchors_of(optional_byte(b("^"), input),
               regex(optional_byte(b("^"), input).rest))

anchored(input) ==
    IF byte(b("/"), input).k = "ok"
    THEN Closed(sof_regex_eof(Tail(input)), b("/"))
    ELSE Err(FALSE)

\* wrap with the elements of a Seq regex spliced into the anchored Seq
wrap_spliced(sof, re, eof) ==
    IF sof = None /\ eof = None THEN re
    ELSE Seq_((IF sof # None THEN <<SOF>> ELSE << >>)
              \o (IF re.type = "Seq" THEN re.re_xs ELSE <<re>>)
              \o (IF eof # None THEN <<EOF>> ELSE << >>))

wrap(sof, re, eof) ==
    IF sof = None /\ eof = None THEN re
    ELSE Seq_((IF sof # None THEN <<SOF>> ELSE << >>) \o <<re>>
              \o (IF eof # None THEN <<EOF>> ELSE << >>))

\* line 126-134, given r, the result of the parser on the whole pattern
parse_of(r) ==
    IF r.k = "panic" THEN Panic
    ELSE IF r.k = "err"
    THEN [k |-> "err", msg |-> "Parse error", unparsed |-> << >>]
    ELSE IF r.rest # << >>
    THEN [k |-> "err",
          msg |-> "failed to parse regular expression, unexpected token at start of: ",
          unparsed |-> r.rest]
    ELSE [k |-> "ok", v |-> wrap(r.v[1], r.v[2], r.v[3])]

parse(pattern) == parse_of(anchored(as_bytes(pattern)))

(***************************************************************************)
(* Executed, the structural tag of a computation over ciphertexts.         *)
(***************************************************************************)
ExConstant(c) == [tag |-> "Constant", c |-> c]

ExCtPos(at) == [tag |-> "CtPos", at |-> at]

ExAnd(a_, b_) == [tag |-> "And", a |-> a_, b |-> b_]

ExOr(a_, b_) == [tag |-> "Or", a |-> a_, b |-> b_]

ExEqual(a_, b_) == [tag |-> "Equal", a |-> a_, b |-> b_]

ExGreaterOrEqual(a_, b_) == [tag |-> "GreaterOrEqual", a |-> a_, b |-> b_]

ExLessOrEqual(a_, b_) == [tag |-> "LessOrEqual", a |-> a_, b |-> b_]

ExNot(a_) == [tag |-> "Not", a |-> a_]

(***************************************************************************)
(* LazyExecution, a deferred computation: the closure is represented by    *)
(* the calls it makes on the execution context when it is forced.  c_char  *)
(* is the captured pair (content[c_pos], Executed::ct_pos(c_pos)).         *)
(***************************************************************************)
lazy_true == [call |-> "ct_true"]

lazy_false == [call |-> "ct_false"]

lazy_constant(c) == [call |-> "ct_constant", c |-> c]

c_char(c_pos) == [call |-> "c_char", at |-> c_pos]

lazy_eq(x, y) == [call |-> "ct_eq", a |-> x, b |-> y]

lazy_ge(x, y) == [call |-> "ct_ge", a |-> x, b |-> y]

lazy_le(x, y) == [call |-> "ct_le", a |-> x, b |-> y]

lazy_and(x, y) == [call |-> "ct_and", a |-> x, b |-> y]

lazy_or(x, y) == [call |-> "ct_or", a |-> x, b |-> y]

lazy_not(x) == [call |-> "ct_not", a |-> x]

(***************************************************************************)
(* build_branches.  The result is the vector of (LazyExecution, usize)     *)
(* pairs, or the fact that the call panicked.  c_pos counts from 0 as in   *)
(* the source; content[c_pos] of the source is content[c_pos + 1] here.    *)
(***************************************************************************)
Branches(out) == [panic |-> FALSE, out |-> out]

Aborted == [panic |-> TRUE, out |-> << >>]

\* the Range closure: cs[1..].iter().fold(eq(c_char, cs[0]), or(res, eq(c_char, c)))
RECURSIVE fold_range(_, _, _)
fold_range(res, cs, c_pos) ==
    IF cs = << >> THEN res
    ELSE fold_range(lazy_or(res, lazy_eq(c_char(c_pos), lazy_constant(Head(cs)))),
                    Tail(cs), c_pos)

\* the closure of Seq and Repeated over the sub-branches xs of one branch_prev
and_prev(branch_prev, xs) ==
    [i \in DOMAIN xs |-> <<lazy_and(branch_prev, xs[i][1]), xs[i][2]>>]

\* exceeds with the comparison off by one
exceeds_by_two(at_least, at_most) == at_least > at_most + 1

\* line 135: if at_least > at_most
exceeds(at_least, at_most) == at_least > at_most

\* past_end letting c_pos = content.len() through
past_end_exclusive(c_pos, len) == c_pos > len

\* line 69: if c_pos >= content.len()
past_end(c_pos, len) == c_pos >= len

RECURSIVE build_branches(_, _, _), expand(_, _, _), fold_seq(_, _, _),
          repeat_rows(_, _, _, _)

\* continuations.into_iter().flat_map(|(branch_prev, p)| build_branches(re_x, p) ...)
expand(content, continuations, re_x) ==
    IF continuations = << >> THEN Branches(<< >>)
    ELSE LET xs == build_branches(content, re_x, continuations[1][2])
             more == expand(content, Tail(continuations), re_x)
         IN  IF xs.panic \/ more.panic THEN Aborted
             ELSE Branches(and_prev(continuations[1][1], xs.out) \o more.out)

\* re_xs[1..].iter().fold(build_branches(re_xs[0]), ...); acc is the fold so far
fold_seq(content, acc, re_xs) ==
    IF acc.panic THEN Aborted
    ELSE IF re_xs = << >> THEN acc
    ELSE fold_seq(content, expand(content, acc.out, Head(re_xs)), Tail(re_xs))

\* for _ in (at_least + 1)..(at_most + 1): the n rows pushed after row last
repeat_rows(content, repeat_re, last, n) ==
    IF n <= 0 THEN Branches(<< >>)
    ELSE LET row == expand(content, last, repeat_re)
             more == repeat_rows(content, repeat_re, row.out, n - 1)
         IN  IF row.panic \/ more.panic THEN Aborted
             ELSE Branches(row.out \o more.out)

build_branches(content, re, c_pos) ==
    IF re.type = "SOF"
    THEN Branches(IF c_pos = 0 THEN << <<lazy_true, c_pos>> >> ELSE << >>)
    ELSE IF re.type = "EOF"
    THEN Branches(IF c_pos = Len(content) THEN << <<lazy_true, c_pos>> >>
                  ELSE << >>)
    ELSE IF past_end(c_pos, Len(content)) THEN Branches(<< >>)
    ELSE CASE re.type = "Char" ->
                Branches(<< <<lazy_eq(c_char(c_pos), lazy_constant(re.c)),
                              c_pos + 1>> >>)
           [] re.type = "AnyChar" -> Branches(<< <<lazy_true, c_pos + 1>> >>)
           [] re.type = "Not" ->
                LET xs == build_branches(content, re.not_re, c_pos)
                IN  IF xs.panic THEN Aborted
                    ELSE Branches([i \in DOMAIN xs.out |->
                                     <<lazy_not(xs.out[i][1]), xs.out[i][2]>>])
           [] re.type = "Either" ->
                LET l == build_branches(content, re.l_re, c_pos)
                    r == build_branches(content, re.r_re, c_pos)
                IN  IF l.panic \/ r.panic THEN Aborted
                    ELSE Branches(l.out \o r.out)
           [] re.type = "Between" ->
                Branches(<< <<lazy_and(
                                lazy_ge(c_char(c_pos), lazy_constant(re.from)),
                                lazy_le(c_char(c_pos), lazy_constant(re.to))),
                              c_pos + 1>> >>)
           [] re.type = "Range" ->
                IF re.cs = << >> THEN Aborted
                ELSE Branches(<< <<fold_range(
                                lazy_eq(c_char(c_pos), lazy_constant(re.cs[1])),
                                Tail(re.cs), c_pos),
                              c_pos + 1>> >>)
           [] re.type = "Repeated" ->
                LET at_least == IF re.at_least = None THEN 0
                                ELSE re.at_least[1]
                    at_most == IF re.at_most = None THEN Len(content) - c_pos
                               ELSE re.at_most[1]
                    zero == IF at_least = 0 THEN << <<lazy_true, c_pos>> >>
                            ELSE << >>
                    first == build_branches(content,
                                 Seq_([i \in 1..(IF at_least > 1 THEN at_least
                                                 ELSE 1) |-> re.repeat_re]),
                                 c_pos)
                    rows == repeat_rows(content, re.repeat_re, first.out,
                                        at_most - at_least)
                IN  IF exceeds(at_least, at_most) THEN Branches(<< >>)
                    ELSE IF first.panic \/ rows.panic THEN Aborted
                    ELSE Branches(zero \o first.out \o rows.out)
           [] re.type = "Optional" ->
                LET res == build_branches(content, re.opt_re, c_pos)
                IN  IF res.panic THEN Aborted
                    ELSE Branches(res.out \o << <<lazy_true, c_pos>> >>)
           [] re.type = "Seq" ->
                IF re.re_xs = << >> THEN Aborted
                ELSE fold_seq(content,
                              build_branches(content, re.re_xs[1], c_pos),
                              Tail(re.re_xs))

(***************************************************************************)
(* What a call of build_branches does besides returning branches: the      *)
(* recursive calls it makes, directly or through these calls, each with    *)
(* its position (<<"call", c_pos>>), and the indices at which it reads     *)
(* content (<<"index", c_pos>> for content[c_pos]).  A call that panics is *)
(* given the events of the calls it would go on to make as well.           *)
(***************************************************************************)
RECURSIVE visits(_, _, _), called(_, _, _), visits_expand(_, _, _),
          visits_fold(_, _, _), visits_rows(_, _, _, _)

\* the recursive call build_branches(content, re, c_pos) and what it does
called(content, re, c_pos) ==
    {<<"call", c_pos>>} \cup visits(content, re, c_pos)

\* line 164-165, 194-195: one recursive call per continuation, at its end
visits_expand(content, continuations, re_x) ==
    UNION { called(content, re_x, continuations[k][2]) :
              k \in DOMAIN continuations }

\* line 189-211: the calls of the fold over re_xs[1..]
visits_fold(content, acc, re_xs) ==
    IF acc.panic \/ re_xs = << >> THEN {}
    ELSE visits_expand(content, acc.out, Head(re_xs))
         \cup visits_fold(content, expand(content, acc.out, Head(re_xs)),
                          Tail(re_xs))

\* line 159-181: the calls of the n rows pushed after row last
visits_rows(content, repeat_re, last, n) ==
    IF n <= 0 THEN {}
    ELSE visits_expand(content, last, repeat_re)
         \cup visits_rows(content, repeat_re,
                          expand(content, last, repeat_re).out, n - 1)

visits(content, re, c_pos) ==
    IF re.type \in {"SOF", "EOF"} THEN {}
    ELSE IF past_end(c_pos, Len(content)) THEN {}
    ELSE CASE re.type \in {"Char", "Between", "Range"} -> {<<"index", c_pos>>}
           [] re.type = "AnyChar" -> {}
           [] re.type = "Not" -> called(content, re.not_re, c_pos)
           [] re.type = "Either" ->
                called(content, re.l_re, c_pos)
                \cup called(content, re.r_re, c_pos)
           [] re.type = "Repeated" ->
                IF exceeds(IF re.at_least = None THEN 0 ELSE re.at_least[1],
                           IF re.at_most = None THEN Len(content) - c_pos
                           ELSE re.at_most[1])
                THEN {}
                ELSE called(content,
                            Seq_([i \in 1..(IF re.at_least # None
                                               /\ re.at_least[1] > 1
                                            THEN re.at_least[1] ELSE 1)
                                    |-> re.repeat_re]),
                            c_pos)
                     \cup visits_rows(
                            content, re.repeat_re,
                            build_branches(
                                content,
                                Seq_([i \in 1..(IF re.at_least # None
                                                   /\ re.at_least[1] > 1
                                                THEN re.at_least[1] ELSE 1)
                                        |-> re.repeat_re]),
                                c_pos).out,
                            (IF re.at_most = None THEN Len(content) - c_pos
                             ELSE re.at_most[1])
                            - (IF re.at_least = None THEN 0
                               ELSE re.at_least[1]))
           [] re.type = "Optional" -> called(content, re.opt_re, c_pos)
           [] re.type = "Seq" ->
                IF re.re_xs = << >> THEN {}
                ELSE called(content, re.re_xs[1], c_pos)
                     \cup visits_fold(
                            content,
                            build_branches(content, re.re_xs[1], c_pos),
                            Tail(re.re_xs))

(***************************************************************************)
(* The FHE primitives on the plaintexts: a radix ciphertext holds          *)
(* num_blocks blocks of block_size bits.                                   *)
(***************************************************************************)
block_size == 2

num_blocks == 4

RECURSIVE Pow2(_)
Pow2(n) == IF n = 0 THEN 1 ELSE 2 * Pow2(n - 1)

Modulus == Pow2(block_size * num_blocks)

\* create_trivial_radix(sk, msg, 2, 4): the bits of msg that fit the blocks
create_trivial_radix(msg) == msg % Modulus

\* a bitwise operation, bit by bit over the width of the ciphertext
RECURSIVE Bitwise(_, _, _, _)
Bitwise(op, x, y, bits) ==
    IF bits = 0 THEN 0
    ELSE LET bx == x % 2
             by == y % 2
             bit == CASE op = "and" -> (IF bx = 1 /\ by = 1 THEN 1 ELSE 0)
                      [] op = "or" -> (IF bx = 1 \/ by = 1 THEN 1 ELSE 0)
                      [] op = "xor" -> (IF bx # by THEN 1 ELSE 0)
         IN  bit + 2 * Bitwise(op, x \div 2, y \div 2, bits - 1)

unchecked_eq(x, y) == IF x = y THEN 1 ELSE 0

unchecked_ge(x, y) == IF x >= y THEN 1 ELSE 0

unchecked_le(x, y) == IF x <= y THEN 1 ELSE 0

unchecked_bitand(x, y) == Bitwise("and", x, y, block_size * num_blocks)

unchecked_bitor(x, y) == Bitwise("or", x, y, block_size * num_blocks)

unchecked_bitxor(x, y) == Bitwise("xor", x, y, block_size * num_blocks)

(***************************************************************************)
(* Forcing a LazyExecution.  TagOf is the Executed tag of the result (the  *)
(* same on a cache hit and on a miss); Requests the calls of non-constant  *)
(* operations in the order the closure makes them: the operands are forced *)
(* first, left to right, and the constants are built in place.             *)
(***************************************************************************)
IsConstantCall(lazy) ==
    lazy.call \in {"ct_true", "ct_false", "ct_constant", "c_char"}

\* TagOf with every content ciphertext tagged as position 0
RECURSIVE TagOf_without_position(_)
TagOf_without_position(lazy) ==
    CASE lazy.call = "ct_true" -> ExConstant(1)
      [] lazy.call = "ct_false" -> ExConstant(0)
      [] lazy.call = "ct_constant" -> ExConstant(lazy.c)
      [] lazy.call = "c_char" -> ExCtPos(0)
      [] lazy.call = "ct_eq" -> ExEqual(TagOf_without_position(lazy.a),
                                        TagOf_without_position(lazy.b))
      [] lazy.call = "ct_ge" ->
            ExGreaterOrEqual(TagOf_without_position(lazy.a),
                             TagOf_without_position(lazy.b))
      [] lazy.call = "ct_le" ->
            ExLessOrEqual(TagOf_without_position(lazy.a),
                          TagOf_without_position(lazy.b))
      [] lazy.call = "ct_and" -> ExAnd(TagOf_without_position(lazy.a),
                                       TagOf_without_position(lazy.b))
      [] lazy.call = "ct_or" -> ExOr(TagOf_without_position(lazy.a),
                                     TagOf_without_position(lazy.b))
      [] lazy.call = "ct_not" -> ExNot(TagOf_without_position(lazy.a))

RECURSIVE TagOf(_)
TagOf(lazy) ==
    CASE lazy.call = "ct_true" -> ExConstant(1)
      [] lazy.call = "ct_false" -> ExConstant(0)
      [] lazy.call = "ct_constant" -> ExConstant(lazy.c)
      [] lazy.call = "c_char" -> ExCtPos(lazy.at)
      [] lazy.call = "ct_eq" -> ExEqual(TagOf(lazy.a), TagOf(lazy.b))
      [] lazy.call = "ct_ge" -> ExGreaterOrEqual(TagOf(lazy.a), TagOf(lazy.b))
      [] lazy.call = "ct_le" -> ExLessOrEqual(TagOf(lazy.a), TagOf(lazy.b))
      [] lazy.call = "ct_and" -> ExAnd(TagOf(lazy.a), TagOf(lazy.b))
      [] lazy.call = "ct_or" -> ExOr(TagOf(lazy.a), TagOf(lazy.b))
      [] lazy.call = "ct_not" -> ExNot(TagOf(lazy.a))

\* Requests with the constants going through with_cache like the operations
RECURSIVE Requests_with_constants(_)
Requests_with_constants(lazy) ==
    IF lazy.call = "c_char" THEN << >>
    ELSE IF lazy.call \in {"ct_true", "ct_false", "ct_constant"} THEN <<lazy>>
    ELSE IF lazy.call = "ct_not"
    THEN Requests_with_constants(lazy.a) \o <<lazy>>
    ELSE Requests_with_constants(lazy.a) \o Requests_with_constants(lazy.b)
         \o <<lazy>>

RECURSIVE Requests(_)
Requests(lazy) ==
    IF IsConstantCall(lazy) THEN << >>
    ELSE IF lazy.call = "ct_not" THEN Requests(lazy.a) \o <<lazy>>
    ELSE Requests(lazy.a) \o Requests(lazy.b) \o <<lazy>>

\* has_match, line 22-35: the fold of the branches with ct_or, as one
\* deferred computation; ct_false when there is no branch.
RECURSIVE fold_or(_, _)
fold_or(res, branches) ==
    IF branches = << >> THEN res
    ELSE fold_or(lazy_or(res, Head(branches)), Tail(branches))

has_match_lazy(branches) ==
    IF Len(branches) <= 1
    THEN (IF branches = << >> THEN lazy_false ELSE branches[1])
    ELSE fold_or(branches[1], Tail(branches))

\* StartPositions with the inclusive range 0..=content.len()
StartPositions_inclusive(len) == [i \in 1..(len + 1) |-> i - 1]

\* has_match, line 15: the start positions (0..content.len()), in order
StartPositions(len) == [i \in 1..len |-> i - 1]

\* has_match, line 15-18: the branches of the start positions, in order
RECURSIVE all_branches(_, _, _)
all_branches(content, re, positions) ==
    IF positions = << >> THEN Branches(<< >>)
    ELSE LET here == build_branches(content, re, Head(positions))
             more == all_branches(content, re, Tail(positions))
         IN  IF here.panic \/ more.panic THEN Aborted
             ELSE Branches([j \in DOMAIN here.out |-> here.out[j][1]]
                           \o more.out)

(***************************************************************************)
(* The inputs.  Patterns are made of an atom, a quantifier and an          *)
(* optional literal before or after, or of two alternatives, inside each   *)
(* combination of anchors, and of malformed variants of these; contents    *)
(* are all strings over ContentChars up to MaxContentLen.  TestInputs are  *)
(* the cases of tests::test_has_match and further (content, pattern) pairs.*)
(***************************************************************************)
MaxContentLen == 2

MaxRepeat == 2

ContentChars == {"a", "b"}

RECURSIVE Strings(_, _)
Strings(chars, n) ==
    IF n = 0 THEN { << >> }
    ELSE LET shorter == Strings(chars, n - 1)
         IN  shorter \cup { <<c>> \o s : c \in chars,
                            s \in { t \in shorter : Len(t) = n - 1 } }

Contents == Strings(ContentChars, MaxContentLen)

DigitChars == <<"0", "1", "2", "3", "4", "5", "6", "7", "8", "9">>

Count(n) == << DigitChars[n + 1] >>

Counts == { Count(n) : n \in 0..MaxRepeat }

Quantifiers ==
    { << >>, <<"?">>, <<"*">>, <<"+">>, <<"{", "}">>, <<"{", ",", "}">> }
    \cup { <<"{">> \o n \o <<"}">> : n \in Counts }
    \cup { <<"{">> \o n \o <<",", "}">> : n \in Counts }
    \cup { <<"{", ",">> \o m \o <<"}">> : m \in Counts }
    \cup { <<"{">> \o n \o <<",">> \o m \o <<"}">> : n \in Counts, m \in Counts }

Atoms ==
    { <<"a">>, <<".">>, <<"[", "a", "b", "]">>, <<"[", "^", "a", "]">>,
      <<"[", "a", "-", "b", "]">>, <<"(", "a", "|", "b", ")">>,
      <<"(", "a", "b", ")">> }

Factors == { r \o q : r \in Atoms, q \in Quantifiers }

Alternatives == { << >>, <<"a">>, <<"a", "b">>, <<"b", "?">>, <<"a", "b", "?">> }

Bodies ==
    Factors
    \cup { <<"b">> \o f : f \in Factors }
    \cup { f \o <<"b">> : f \in Factors }
    \cup { l \o <<"|">> \o r : l \in Alternatives, r \in Alternatives }

Anchorings == { <<sof, eof>> : sof \in { << >>, <<"^">> },
                               eof \in { << >>, <<"$">> } }

WellDelimited ==
    { <<"/">> \o an[1] \o body \o an[2] \o <<"/">> :
        an \in Anchorings, body \in Bodies }

Malformed ==
    { << >>, <<"a">>, <<"/">>, <<"/", "a">>, <<"a", "/">>,
      <<"/", "a", "/", "b">>, <<"/", "a", "/", "/">>, <<"/", "a", "\\", "/">>,
      <<"/", "^", "a", "$">>, <<"/", "a", "$", "b", "/">>,
      <<"/", "a", "^", "/">>, <<"/", "^", "^", "a", "/">>,
      <<"/", "[", "/">>, <<"/", "[", "a", "/">>, <<"/", "[", "]", "/">>,
      <<"/", "(", "a", "/">>, <<"/", "a", ")", "/">>, <<"/", "a", "(", "/">>,
      <<"/", "*", "/">>, <<"/", "a", "*", "*", "/">>, <<"/", "a", "{", "/">>,
      <<"/", "a", "{", "1", "/">>, <<"/", "a", "{", "}">>,
      <<"/", "a", "{", "}", "/", "b">>, <<"a", "{", "}", "/">>,
      <<"/", "a", "{", "1", "}", "/", "b">>, <<"/", "1", "/">> }

Patterns == WellDelimited \cup Malformed

TestInputs ==
    { << <<"a", "b">>, <<"/", "a", "b", "/">> >>,
      << <<"a", "b">>, <<"/", "a", "?", "b", "/">> >>,
      << <<"a", "b">>, <<"/", "^", "a", "b", "|", "c", "d", "$", "/">> >>,
      << <<" ", "a", "b">>, <<"/", "^", "a", "b", "|", "c", "d", "$", "/">> >>,
      << <<" ", "c", "d">>, <<"/", "^", "a", "b", "|", "c", "d", "$", "/">> >>,
      << <<"c", "d">>, <<"/", "^", "a", "b", "|", "c", "d", "$", "/">> >>,
      << <<"a", "b", "c", "d">>,
         <<"/", "^", "a", "b", "|", "c", "d", "$", "/">> >>,
      << <<"a", "b", "c", "d">>, <<"/", "a", "b", "|", "c", "d", "$", "/">> >>,
      << <<"a", "b", "c">>, <<"/", "a", "b", "c", "/">> >>,
      << <<"1", "2", "3", "a", "b", "c">>, <<"/", "a", "b", "c", "/">> >>,
      << <<"1", "2", "3", "a", "b", "c", "4", "5", "6">>,
         <<"/", "a", "b", "c", "/">> >>,
      << <<"1", "2", "3", "a", "b", "d", "c", "4", "5", "6">>,
         <<"/", "a", "b", "c", "/">> >>,
      << <<"a", "b", "c", "4", "5", "6">>, <<"/", "a", "b", "c", "/">> >>,
      << <<"b", "c">>, <<"/", "a", "*", "b", "c", "/">> >>,
      << <<"c", "d", "a", "a", "b", "c">>, <<"/", "a", "*", "b", "c", "/">> >>,
      << <<"c", "d", "b", "c">>, <<"/", "a", "+", "b", "c", "/">> >>,
      << <<"b", "c">>, <<"/", "a", "+", "b", "c", "/">> >>,
      << <<"a">>, <<"/", "a", "{", "1", "0", ",", "}", "/">> >>,
      << <<"a">>, <<"/", "a", "{", "1", "8", "4", "4", "6", "7", "4", "4",
                    "0", "7", "3", "7", "0", "9", "5", "5", "1", "6", "1",
                    "6", "}", "/">> >>,
      << <<"z">>, <<"/", "[", "z", "-", "a", "]", "/">> >>,
      << <<"a", "z">>, <<"/", "[", "^", "^", "a", "]", "/">> >>,
      << <<"a", ".">>, <<"/", "\\", ".", "/">> >>,
      << <<"a">>, <<"/", "a", "b", "?", "/">> >>,
      << <<"a">>, <<"/", "a", "b", "*", "/">> >>,
      << <<"a", "a">>, <<"/", "(", ")", "{", "2", ",", "1", "}", "/">> >>,
      << <<"a", "a">>, <<"/", "(", ")", "{", "1", ",", "2", "}", "/">> >>,
      << <<"a", "a">>, <<"/", "a", "{", "5", ",", "2", "}", "/">> >> }

Inputs == TestInputs \cup (Contents \X Patterns)

(***************************************************************************)
(* The state: one call has_match(sk, content, pattern).                    *)
(***************************************************************************)
VARIABLES
    content,     \* the plaintext of the encrypted content
    pattern,     \* the pattern text
    pc,          \* "start", "parsed", "built", "forcing", "done", "error", "abort"
    parsed,      \* the result of parse(pattern), NotYet before
    asked,       \* the start positions build_branches was called with
    branches,    \* the Vec<LazyExecution> of line 15
    exec,        \* "none" until Execution::new, then "live"
    cache,       \* Execution.cache: Executed -> ciphertext
    ct_ops,      \* Execution.ct_ops
    cache_hits,  \* Execution.cache_hits
    todo,        \* the calls on exec that forcing has still to make
    res          \* the Result returned by has_match, NotYet before

vars == <<content, pattern, pc, parsed, asked, branches, exec, cache, ct_ops,
          cache_hits, todo, res>>

NotYet == [k |-> "none"]

EmptyCache == [ctx \in {} |-> 0]

\* the content as has_match receives it: one ciphertext per byte
ct_content == as_bytes(content)

Init ==
    /\ \E in \in Inputs : content = in[1] /\ pattern = in[2]
    /\ pc = "start"
    /\ parsed = NotYet
    /\ asked = << >>
    /\ branches = << >>
    /\ exec = "none"
    /\ cache = EmptyCache
    /\ ct_ops = 0
    /\ cache_hits = 0
    /\ todo = << >>
    /\ res = NotYet

\* after_parse with the parse error dropped instead of returned
after_parse_drops_error(r) == IF r.k = "panic" THEN "abort" ELSE "parsed"

\* line 13, the ? operator: where has_match goes on the result r of parse
after_parse(r) ==
    CASE r.k = "ok" -> "parsed"
      [] r.k = "err" -> "error"
      [] r.k = "panic" -> "abort"

\* line 13: let re = parse(pattern)?;
Parse ==
    /\ pc = "start"
    /\ parsed' = parse(pattern)
    /\ pc' = after_parse(parsed')
    /\ res' = IF pc' = "error" THEN parsed' ELSE res
    /\ UNCHANGED <<content, pattern, asked, branches, exec, cache, ct_ops,
                   cache_hits, todo>>

\* Build forcing every branch as soon as it is enumerated
Build_eager ==
    /\ pc = "parsed"
    /\ asked' = StartPositions(Len(ct_content))
    /\ LET all == all_branches(ct_content, parsed.v, asked')
       IN  /\ pc' = IF all.panic THEN "abort" ELSE "built"
           /\ branches' = all.out
           /\ ct_ops' = Len(all.out)
    /\ UNCHANGED <<content, pattern, parsed, exec, cache, cache_hits,
                   todo, res>>

\* line 15-18: enumerate the branches of every start position
Build ==
    /\ pc = "parsed"
    /\ asked' = StartPositions(Len(ct_content))
    /\ LET all == all_branches(ct_content, parsed.v, asked')
       IN  /\ pc' = IF all.panic THEN "abort" ELSE "built"
           /\ branches' = all.out
    /\ UNCHANGED <<content, pattern, parsed, exec, cache, ct_ops, cache_hits,
                   todo, res>>

\* line 20: let mut exec = Execution::new(sk.clone());
NewExecution ==
    /\ pc = "built"
    /\ exec' = "live"
    /\ cache' = EmptyCache
    /\ ct_ops' = 0
    /\ cache_hits' = 0
    /\ todo' = Requests(has_match_lazy(branches))
    /\ pc' = "forcing"
    /\ UNCHANGED <<content, pattern, parsed, asked, branches, res>>

\* the ciphertext of the ExecutedResult an operand evaluates to: a constant,
\* a content ciphertext, or the result of an operation requested before,
\* which the cache holds under its tag whether that request hit or missed
ct_of(lazy) ==
    CASE lazy.call = "ct_true" -> create_trivial_radix(1)
      [] lazy.call = "ct_false" -> create_trivial_radix(0)
      [] lazy.call = "ct_constant" -> create_trivial_radix(lazy.c)
      [] lazy.call = "c_char" -> ct_content[lazy.at + 1]
      [] OTHER -> cache[TagOf(lazy)]

\* primitive with ct_not flipping every bit of its operand instead of the
\* lowest one
primitive_not_flips_all_bits(lazy) ==
    CASE lazy.call = "ct_eq" -> unchecked_eq(ct_of(lazy.a), ct_of(lazy.b))
      [] lazy.call = "ct_ge" -> unchecked_ge(ct_of(lazy.a), ct_of(lazy.b))
      [] lazy.call = "ct_le" -> unchecked_le(ct_of(lazy.a), ct_of(lazy.b))
      [] lazy.call = "ct_and" -> unchecked_bitand(ct_of(lazy.a), ct_of(lazy.b))
      [] lazy.call = "ct_or" -> unchecked_bitor(ct_of(lazy.a), ct_of(lazy.b))
      [] lazy.call = "ct_not" ->
            unchecked_bitxor(ct_of(lazy.a), create_trivial_radix(Modulus - 1))

\* the closure each ct_* operation hands to with_cache
primitive(lazy) ==
    CASE lazy.call = "ct_eq" -> unchecked_eq(ct_of(lazy.a), ct_of(lazy.b))
      [] lazy.call = "ct_ge" -> unchecked_ge(ct_of(lazy.a), ct_of(lazy.b))
      [] lazy.call = "ct_le" -> unchecked_le(ct_of(lazy.a), ct_of(lazy.b))
      [] lazy.call = "ct_and" -> unchecked_bitand(ct_of(lazy.a), ct_of(lazy.b))
      [] lazy.call = "ct_or" -> unchecked_bitor(ct_of(lazy.a), ct_of(lazy.b))
      [] lazy.call = "ct_not" ->
            unchecked_bitxor(ct_of(lazy.a), create_trivial_radix(1))

\* CacheHit without the increment of cache_hits
CacheHit_without_count ==
    /\ pc = "forcing"
    /\ todo # << >>
    /\ TagOf(Head(todo)) \in DOMAIN cache
    /\ todo' = Tail(todo)
    /\ UNCHANGED <<content, pattern, pc, parsed, asked, branches, exec, cache,
                   ct_ops, cache_hits, res>>

\* CacheHit counting a ciphertext operation as well
CacheHit_counts_operation ==
    /\ pc = "forcing"
    /\ todo # << >>
    /\ TagOf(Head(todo)) \in DOMAIN cache
    /\ cache_hits' = cache_hits + 1
    /\ ct_ops' = ct_ops + 1
    /\ todo' = Tail(todo)
    /\ UNCHANGED <<content, pattern, pc, parsed, asked, branches, exec, cache,
                   res>>

\* with_cache, line 162-166: the tag is in the cache
CacheHit ==
    /\ pc = "forcing"
    /\ todo # << >>
    /\ TagOf(Head(todo)) \in DOMAIN cache
    /\ cache_hits' = cache_hits + 1
    /\ todo' = Tail(todo)
    /\ UNCHANGED <<content, pattern, pc, parsed, asked, branches, exec, cache,
                   ct_ops, res>>

\* CacheMiss with a cache of one entry: the insertion evicts the others
CacheMiss_evicting ==
    /\ pc = "forcing"
    /\ todo # << >>
    /\ TagOf(Head(todo)) \notin DOMAIN cache
    /\ ct_ops' = ct_ops + 1
    /\ cache' = (TagOf(Head(todo)) :> primitive(Head(todo)))
    /\ todo' = Tail(todo)
    /\ UNCHANGED <<content, pattern, pc, parsed, asked, branches, exec,
                   cache_hits, res>>

\* CacheMiss without the insertion of the result into the cache
CacheMiss_without_insert ==
    /\ pc = "forcing"
    /\ todo # << >>
    /\ TagOf(Head(todo)) \notin DOMAIN cache
    /\ ct_ops' = ct_ops + 1
    /\ todo' = Tail(todo)
    /\ UNCHANGED <<content, pattern, pc, parsed, asked, branches, exec, cache,
                   cache_hits, res>>

\* with_cache, line 167-170: the tag is not in the cache
CacheMiss ==
    /\ pc = "forcing"
    /\ todo # << >>
    /\ TagOf(Head(todo)) \notin DOMAIN cache
    /\ ct_ops' = ct_ops + 1
    /\ cache' = (TagOf(Head(todo)) :> primitive(Head(todo))) @@ cache
    /\ todo' = Tail(todo)
    /\ UNCHANGED <<content, pattern, pc, parsed, asked, branches, exec,
                   cache_hits, res>>

\* line 41: Ok(res)
Return ==
    /\ pc = "forcing"
    /\ todo = << >>
    /\ res' = [k |-> "ok", v |-> ct_of(has_match_lazy(branches))]
    /\ pc' = "done"
    /\ UNCHANGED <<content, pattern, parsed, asked, branches, exec, cache,
                   ct_ops, cache_hits, todo>>

Next == Parse \/ Build \/ NewExecution \/ CacheHit \/ CacheMiss \/ Return

Spec == Init /\ [][Next]_vars

(***************************************************************************)
(* The reference semantics of the claims: the usual meaning of a regular   *)
(* expression, as the set of positions where a match of re that starts at  *)
(* offset i of s can end.                                                  *)
(***************************************************************************)
RECURSIVE InClass(_, _)
InClass(re, c) ==
    CASE re.type = "Char" -> c = re.c
      [] re.type = "AnyChar" -> TRUE
      [] re.type = "Between" -> re.from <= c /\ c <= re.to
      [] re.type = "Range" -> \E k \in DOMAIN re.cs : re.cs[k] = c
      [] re.type = "Not" -> ~InClass(re.not_re, c)
      [] OTHER -> FALSE

OneByte(re, s, i) == IF i < Len(s) /\ InClass(re, s[i + 1]) THEN {i + 1} ELSE {}

RECURSIVE RefEnds(_, _, _), RefFrom(_, _, _), RefSeq(_, _, _), RefPower(_, _, _, _)
RefFrom(re, s, from) == UNION { RefEnds(re, s, i) : i \in from }

RefSeq(re_xs, s, from) ==
    IF re_xs = << >> THEN from
    ELSE RefSeq(Tail(re_xs), s, RefFrom(Head(re_xs), s, from))

RefPower(re, s, from, k) ==
    IF k = 0 THEN from ELSE RefPower(re, s, RefFrom(re, s, from), k - 1)

RefLeast(re) == IF re.at_least = None THEN 0 ELSE re.at_least[1]

RefMost(re, s) ==
    IF re.at_most = None THEN RefLeast(re) + Len(s) + 1 ELSE re.at_most[1]

RefEnds(re, s, i) ==
    CASE re.type = "SOF" -> IF i = 0 THEN {i} ELSE {}
      [] re.type = "EOF" -> IF i = Len(s) THEN {i} ELSE {}
      [] re.type = "Either" -> RefFrom(re.l_re, s, {i}) \cup RefFrom(re.r_re, s, {i})
      [] re.type = "Optional" -> {i} \cup RefFrom(re.opt_re, s, {i})
      [] re.type = "Seq" -> RefSeq(re.re_xs, s, {i})
      [] re.type = "Repeated" ->
            UNION { RefPower(re.repeat_re, s, {i}, k) :
                        k \in RefLeast(re)..RefMost(re, s) }
      [] OTHER -> OneByte(re, s, i)

\* some substring of s matches re
RefSearch(re, s) == \E i \in 0..Len(s) : RefEnds(re, s, i) # {}

\* the whole of s matches re
RefFull(re, s) == Len(s) \in RefEnds(re, s, 0)

Bit(p) == IF p THEN 1 ELSE 0

(***************************************************************************)
(* The claims.                                                             *)
(***************************************************************************)

\* C1: whenever has_match returns for a pattern that parses, the value it
\* returns decrypts to 1 if some substring of the content matches the
\* pattern under the usual regex semantics (with the anchors ^ and $), and
\* to 0 otherwise.  Stated here for non-empty content: the result for empty
\* content is the subject of C4.
HasMatchAgreesWithRegexSemantics ==
    (pc = "done" /\ content # << >>)
        => res.v = Bit(RefSearch(parsed.v, ct_content))

\* C2: the value has_match returns decrypts to 0 or to 1, never to another
\* integer.
ResultIsBit == pc = "done" => res.v \in {0, 1}

\* C2: a call returned 1 after evaluating negations, conjunctions and
\* disjunctions.
ResultIsBitWitness ==
    /\ pc = "done"
    /\ res.v = 1
    /\ \E t \in DOMAIN cache : t.tag = "Not"
    /\ \E t \in DOMAIN cache : t.tag = "And"
    /\ \E t \in DOMAIN cache : t.tag = "Or"

\* C3: once the pattern has parsed, has_match does not abort: it has no
\* failure of its own.
NoRuntimeFailureAfterParse == parsed.k = "ok" => pc # "abort"

\* C4: for empty content and a pattern that parses, has_match enumerates no
\* start position, builds no branch, does not abort and returns 0.
EmptyContentReturnsZero ==
    (content = << >> /\ parsed.k = "ok")
        => /\ asked = << >>
           /\ branches = << >>
           /\ pc # "abort"
           /\ pc = "done" => res.v = 0

\* C4: has_match returned 0 for empty content and a pattern that the empty
\* string matches.
EmptyContentReturnsZeroWitness ==
    /\ content = << >>
    /\ pc = "done"
    /\ res.v = 0
    /\ parsed.v.type = "Optional"

\* C5: when the pattern fails to parse, has_match returns the parse error
\* and stops: build_branches is never called, no execution context is
\* created and no primitive ciphertext operation is performed.
ParseErrorSkipsEngine ==
    parsed.k = "err"
        => /\ pc = "error"
           /\ res = parsed
           /\ asked = << >>
           /\ branches = << >>
           /\ exec = "none"
           /\ cache = EmptyCache
           /\ ct_ops = 0
           /\ cache_hits = 0

\* C5: has_match returned the parse error of a pattern with trailing input,
\* for non-empty content.
ParseErrorSkipsEngineWitness ==
    /\ pc = "error"
    /\ res.k = "err"
    /\ res.unparsed # << >>
    /\ content # << >>

\* C6: parse is total: on every input it returns an AST or a parse error
\* that carries a message, and never aborts.
ParseIsTotal ==
    parsed # NotYet
        => \/ parsed.k = "ok"
           \/ parsed.k = "err" /\ parsed.msg # ""

\* the pattern text has a leading ^ after the opening /
HasSof(p) == Len(p) >= 2 /\ p[2] = "^"

\* the pattern text has a trailing $ (not an escaped one) before the closing /
HasEof(p) == Len(p) >= 3 /\ p[Len(p) - 1] = "$" /\ p[Len(p) - 2] # "\\"

\* the pattern text does not begin with /
NoOpening(p) == p = << >> \/ p[1] # "/"

\* the pattern text ends without a closing /: its last character is not a /
\* or is an escaped one
NoClosing(p) ==
    \/ Len(p) = 1
    \/ p[Len(p)] # "/"
    \/ Len(p) >= 3 /\ p[Len(p) - 1] = "\\" /\ p[Len(p) - 2] # "\\"

\* the pattern text goes on after a closing /: a proper prefix of it is a
\* whole pattern
TrailingInput(p) ==
    \E k \in 1..(Len(p) - 1) : parse(SubSeq(p, 1, k)).k = "ok"

\* C7: parse returns an error, and no AST, whenever the pattern does not
\* begin with /, has no closing / after the regex body and the optional $,
\* or has input left after the closing /.  (Stated on the state parse
\* leaves; pattern and parsed do not change afterwards.)
DelimiterErrors ==
    (/\ pc \in {"parsed", "error", "abort"}
     /\ NoOpening(pattern) \/ NoClosing(pattern) \/ TrailingInput(pattern))
        => parsed.k = "err"

\* the end positions of the branches build_branches returns for start i
BranchEnds(i) ==
    LET here == build_branches(ct_content, parsed.v, i)
    IN  { here.out[j][2] : j \in DOMAIN here.out }

\* C8: anchors bind the whole pattern, a top-level alternation included: a
\* pattern with a leading ^ contributes branches for start position 0 only,
\* a pattern with a trailing $ contributes only branches that end at
\* content.len(), so /^l|r$/ matches exactly when the whole content matches
\* l or the whole content matches r, and "abcd" matches /ab|cd$/.  (The
\* equivalence is stated for non-empty content: the result for empty
\* content is the subject of C4.)
AnchorsBindWholePattern ==
    /\ (pc = "built" /\ HasSof(pattern))
            => \A i \in 1..(Len(content) - 1) : BranchEnds(i) = {}
    /\ (pc = "built" /\ HasEof(pattern))
            => \A i \in 0..(Len(content) - 1) : BranchEnds(i) \subseteq {Len(content)}
    /\ (/\ pc \in {"done", "abort"}
        /\ parsed.k = "ok"
        /\ content # << >>
        /\ HasSof(pattern) /\ HasEof(pattern)
        /\ parsed.v.re_xs[2].type = "Either")
            => ((pc = "done" /\ res.v = 1)
                    <=> \/ RefFull(parsed.v.re_xs[2].l_re, ct_content)
                        \/ RefFull(parsed.v.re_xs[2].r_re, ct_content))
    /\ (/\ pc \in {"done", "abort"}
        /\ content = <<"a", "b", "c", "d">>
        /\ pattern = <<"/", "a", "b", "|", "c", "d", "$", "/">>)
            => (pc = "done" /\ res.v = 1)

\* the AST of each atom of Atoms
AtomAst(r) ==
    CASE r = <<"a">> -> Char(97)
      [] r = <<".">> -> AnyChar
      [] r = <<"[", "a", "b", "]">> -> Range(<<97, 98>>)
      [] r = <<"[", "^", "a", "]">> -> Not(Range(<<97>>))
      [] r = <<"[", "a", "-", "b", "]">> -> Between(97, 98)
      [] r = <<"(", "a", "|", "b", ")">> -> Either(Char(97), Char(98))
      [] r = <<"(", "a", "b", ")">> -> Seq_(<<Char(97), Char(98)>>)

\* parse returned ast, alone or between the characters pre and post
ParsedAs(pre, ast, post) ==
    LET re_xs == [k \in DOMAIN pre |-> Char(98)] \o <<ast>>
                 \o [k \in DOMAIN post |-> Char(98)]
    IN  parsed = [k |-> "ok",
                  v |-> IF Len(re_xs) = 1 THEN ast ELSE Seq_(re_xs)]

\* C9: the parser maps a quantifier on an atom r as follows: r* to
\* Repeated(r, None, None), r+ to Repeated(r, Some(1), None), r{n} to
\* Repeated(r, Some(n), Some(n)), r{n,} to Repeated(r, Some(n), None), r{,m}
\* to Repeated(r, None, Some(m)), r{n,m} to Repeated(r, Some(n), Some(m)) and
\* r? to Optional(r); the quantifier applies to the atom right before it
\* only, a parenthesised group being one atom.  (Stated on the state parse
\* leaves, for the pattern /r q/ alone and next to a character b.)
QuantifierMapping ==
    pc \in {"parsed", "error", "abort"} =>
        \A r \in Atoms, pre \in {<< >>, <<"b">>}, post \in {<< >>, <<"b">>} :
            LET Is(q) == pattern = <<"/">> \o pre \o r \o q \o post \o <<"/">>
                To(ast) == ParsedAs(pre, ast, post)
                Starts == /\ Len(pattern) >= 1 + Len(pre) + Len(r)
                          /\ SubSeq(pattern, 1, 1 + Len(pre) + Len(r))
                                = <<"/">> \o pre \o r
            IN  Starts =>
                /\ Is(<<"*">>) => To(Repeated(AtomAst(r), None, None))
                /\ Is(<<"+">>) => To(Repeated(AtomAst(r), Some(1), None))
                /\ Is(<<"?">>) => To(Optional(AtomAst(r)))
                /\ \A n \in 0..MaxRepeat :
                    /\ Is(<<"{">> \o Count(n) \o <<"}">>)
                          => To(Repeated(AtomAst(r), Some(n), Some(n)))
                    /\ Is(<<"{">> \o Count(n) \o <<",", "}">>)
                          => To(Repeated(AtomAst(r), Some(n), None))
                    /\ Is(<<"{", ",">> \o Count(n) \o <<"}">>)
                          => To(Repeated(AtomAst(r), None, Some(n)))
                    /\ \A m \in 0..MaxRepeat :
                        Is(<<"{">> \o Count(n) \o <<",">> \o Count(m) \o <<"}">>)
                          => To(Repeated(AtomAst(r), Some(n), Some(m)))

\* C9: parse returned the AST of /b(a|b){1,2}/, the quantifier on the group
\* and not on b.
QuantifierMappingWitness ==
    /\ pattern = <<"/", "b", "(", "a", "|", "b", ")", "{", "1", ",", "2", "}", "/">>
    /\ parsed = [k |-> "ok",
                 v |-> Seq_(<<Char(98),
                              Repeated(Either(Char(97), Char(98)),
                                       Some(1), Some(2))>>)]

\* the regex body of the pattern text: what is between the delimiters and
\* the anchors
Body(p) ==
    SubSeq(p, IF HasSof(p) THEN 3 ELSE 2,
              IF HasEof(p) THEN Len(p) - 2 ELSE Len(p) - 1)

\* C10: when the pattern has neither a leading ^ nor a trailing $, parse
\* returns the AST of the regex body itself; otherwise it returns a Seq of,
\* in order, SOF iff ^ is present, the AST of the whole regex body as one
\* element, and EOF iff $ is present.  (Stated on the state parse leaves
\* when it returns an AST.)
OuterWrapping ==
    pc = "parsed" =>
        LET body == regex(as_bytes(Body(pattern)))
        IN  /\ body.k = "ok"
            /\ body.rest = << >>
            /\ ~HasSof(pattern) /\ ~HasEof(pattern) => parsed.v = body.v
            /\ HasSof(pattern) /\ ~HasEof(pattern)
                    => parsed.v = Seq_(<<SOF, body.v>>)
            /\ ~HasSof(pattern) /\ HasEof(pattern)
                    => parsed.v = Seq_(<<body.v, EOF>>)
            /\ HasSof(pattern) /\ HasEof(pattern)
                    => parsed.v = Seq_(<<SOF, body.v, EOF>>)

\* C10: parse returned the AST of /^ab|cd$/: the alternation is one Either
\* between SOF and EOF.
OuterWrappingWitness ==
    /\ pattern = <<"/", "^", "a", "b", "|", "c", "d", "$", "/">>
    /\ parsed.k = "ok"
    /\ parsed.v = Seq_(<<SOF,
                         Either(Seq_(<<Char(97), Char(98)>>),
                                Seq_(<<Char(99), Char(100)>>)),
                         EOF>>)

\* the AST of the single factor f, by the factor parser on f alone
FactorAst(f) == factor(as_bytes(f)).v

\* f is the text of one whole factor
IsFactor(f) ==
    /\ factor(as_bytes(f)).k = "ok"
    /\ factor(as_bytes(f)).rest = << >>

RECURSIVE SubExprs(_)
SubExprs(re) ==
    {re} \cup
    CASE re.type = "Not" -> SubExprs(re.not_re)
      [] re.type = "Either" -> SubExprs(re.l_re) \cup SubExprs(re.r_re)
      [] re.type = "Optional" -> SubExprs(re.opt_re)
      [] re.type = "Repeated" -> SubExprs(re.repeat_re)
      [] re.type = "Seq" -> UNION { SubExprs(re.re_xs[k]) : k \in DOMAIN re.re_xs }
      [] OTHER -> {}

\* C12: every Between node of an AST that parse returns has from <= to.
BetweenIsOrdered ==
    parsed.k = "ok" =>
        \A n \in SubExprs(parsed.v) : n.type = "Between" => n.from <= n.to

\* C13: every Repeated node of an AST that parse returns, when both of its
\* bounds are specified, has at_least <= at_most.
RepeatedIsOrdered ==
    parsed.k = "ok" =>
        \A n \in SubExprs(parsed.v) :
            (n.type = "Repeated" /\ n.at_least # None /\ n.at_most # None)
                => n.at_least[1] <= n.at_most[1]

\* the number of characters every match of re consumes, 0 when the matches
\* of re are not all of one positive length
RECURSIVE Width(_)
SumWidths(ws) ==
    IF \E k \in DOMAIN ws : ws[k] = 0 THEN 0
    ELSE LET Sum[k \in 0..Len(ws)] == IF k = 0 THEN 0 ELSE Sum[k - 1] + ws[k]
         IN  Sum[Len(ws)]

Width(re) ==
    CASE re.type \in {"Char", "AnyChar", "Between", "Range", "Not"} -> 1
      [] re.type = "Either" ->
            IF Width(re.l_re) = Width(re.r_re) THEN Width(re.l_re) ELSE 0
      [] re.type = "Seq" -> SumWidths([k \in DOMAIN re.re_xs |-> Width(re.re_xs[k])])
      [] OTHER -> 0

\* at_least.unwrap_or(0)
EffectiveAtLeast(re) == IF re.at_least = None THEN 0 ELSE re.at_least[1]

\* at_most.unwrap_or(content.len() - c_pos)
EffectiveAtMost(re, c_pos) ==
    IF re.at_most = None THEN Len(content) - c_pos ELSE re.at_most[1]

\* the numbers of repetitions of the branches that build_branches returns
\* for the Repeated re at c_pos, in order
RepetitionCounts(re, c_pos) ==
    LET here == build_branches(ct_content, re, c_pos)
    IN  [j \in DOMAIN here.out |->
            (here.out[j][2] - c_pos) \div Width(re.repeat_re)]

\* C14: for Repeated(r, at_least, at_most) asked at c_pos < content.len(),
\* with at_least defaulting to 0 and at_most to content.len() - c_pos, every
\* branch build_branches emits stands for k consecutive matches of r with
\* at_least <= k <= at_most, and the rows come in increasing k; so between
\* the anchors r{,m} and r{0,m} do not accept m + 1 repetitions and r{0}
\* accepts zero repetitions only.  (Stated for the patterns that are one
\* quantified atom whose matches are all of one length.)
RepetitionsWithinBounds ==
    /\ (/\ pc = "built"
        /\ parsed.v.type = "Repeated"
        /\ Width(parsed.v.repeat_re) > 0)
            => \A c_pos \in 0..(Len(content) - 1) :
                  LET ks == RepetitionCounts(parsed.v, c_pos)
                  IN  /\ \A j \in DOMAIN ks :
                            /\ EffectiveAtLeast(parsed.v) <= ks[j]
                            /\ ks[j] <= EffectiveAtMost(parsed.v, c_pos)
                      /\ \A j \in DOMAIN ks : j > 1 => ks[j - 1] <= ks[j]
    /\ (/\ pc = "done"
        /\ content # << >>
        /\ HasSof(pattern) /\ HasEof(pattern)
        /\ parsed.v.re_xs[2].type = "Repeated"
        /\ Width(parsed.v.re_xs[2].repeat_re) > 0)
            => res.v = Bit(RefFull(parsed.v.re_xs[2], ct_content))

\* re may match zero characters: Optional, or Repeated with at_least 0
ZeroOccurrences(re) ==
    \/ re.type = "Optional"
    \/ re.type = "Repeated" /\ EffectiveAtLeast(re) = 0

\* build_branches returns the always-true branch that stays at c_pos
HasZeroBranch(re, c_pos) ==
    LET here == build_branches(ct_content, re, c_pos)
    IN  \E j \in DOMAIN here.out : here.out[j] = <<lazy_true, c_pos>>

\* C15: an Optional, or a Repeated with at_least 0, contributes its
\* always-true zero-occurrence branch at every position where it is asked,
\* c_pos = content.len() included; so a pattern whose mandatory part
\* consumes the content up to its end, followed by such an element, matches
\* (/ab?/ and /ab*/ on "a" give 1).  (Stated for non-empty content.)
ZeroOccurrenceBranchEverywhere ==
    /\ (pc = "built" /\ content # << >> /\ ZeroOccurrences(parsed.v))
            => \A c_pos \in 0..Len(content) : HasZeroBranch(parsed.v, c_pos)
    /\ (/\ pc = "done"
        /\ content # << >>
        /\ parsed.v.type = "Seq"
        /\ Len(parsed.v.re_xs) = 2
        /\ ZeroOccurrences(parsed.v.re_xs[2])
        /\ \E i \in 0..(Len(content) - 1) :
                Len(content) \in RefEnds(parsed.v.re_xs[1], ct_content, i))
            => res.v = 1

\* re is a Repeated whose two bounds are specified, at_least above at_most
BoundsCrossed(re) ==
    /\ re.type = "Repeated"
    /\ re.at_least # None /\ re.at_most # None
    /\ re.at_least[1] > re.at_most[1]

\* C16: when the effective at_least (default 0) exceeds the effective
\* at_most (default content.len() - c_pos), build_branches returns no branch
\* for that Repeated and does not recurse into its sub-expression (it does
\* not fail where the sub-expression would), and a Seq that contains such a
\* Repeated yields no branch.
NoBranchWhenAtLeastExceedsAtMost ==
    /\ (pc \in {"built", "abort"} /\ parsed.k = "ok" /\ parsed.v.type = "Repeated")
            => \A c_pos \in 0..(Len(content) - 1) :
                  EffectiveAtLeast(parsed.v) > EffectiveAtMost(parsed.v, c_pos)
                      => build_branches(ct_content, parsed.v, c_pos)
                            = Branches(<< >>)
    /\ (/\ pc \in {"built", "abort", "done"}
        /\ parsed.k = "ok"
        /\ parsed.v.type = "Seq"
        /\ \E k \in DOMAIN parsed.v.re_xs : BoundsCrossed(parsed.v.re_xs[k]))
            => /\ pc # "abort"
               /\ branches = << >>
               /\ pc = "done" => res.v = 0

\* C16: has_match returned 0 without a branch for (){2,1} on "aa": the
\* empty group, on which build_branches would fail, was not entered.
NoBranchWhenAtLeastExceedsAtMostWitness ==
    /\ pc = "done"
    /\ content = <<"a", "a">>
    /\ parsed.v = Repeated(Seq_(<< >>), Some(2), Some(1))
    /\ branches = << >>
    /\ res.v = 0

\* C17: a call of a non-constant operation with tag T, when T is in the
\* cache, returns the cached ciphertext, adds exactly 1 to cache_hits and
\* leaves ct_ops and the cache unchanged (no primitive is invoked); when T
\* is absent it invokes the primitive once, inserts the result under T,
\* adds exactly 1 to ct_ops and leaves cache_hits and the other entries
\* unchanged.
CachePolicy ==
    [][(pc = "forcing" /\ todo # << >>) =>
          LET T == TagOf(Head(todo))
          IN  IF T \in DOMAIN cache
              THEN /\ cache' = cache
                   /\ cache_hits' = cache_hits + 1
                   /\ ct_ops' = ct_ops
              ELSE /\ DOMAIN cache' = DOMAIN cache \cup {T}
                   /\ cache'[T] = primitive(Head(todo))
                   /\ \A t \in DOMAIN cache : cache'[t] = cache[t]
                   /\ ct_ops' = ct_ops + 1
                   /\ cache_hits' = cache_hits]_vars

\* C17: one execution context has served both a hit and a miss and has
\* further requests to serve.
CachePolicyWitness ==
    /\ pc = "forcing"
    /\ cache_hits >= 1
    /\ ct_ops >= 1
    /\ todo # << >>

\* the requests of non-constant operations that the execution context has
\* served so far in this call of has_match, in order
Served ==
    LET all == Requests(has_match_lazy(branches))
    IN  SubSeq(all, 1, Len(all) - Len(todo))

\* the distinct tags among the served requests
ServedTags == { TagOf(Served[k]) : k \in DOMAIN Served }

\* C18: over one execution context, the primitive is invoked at most once
\* per distinct structural tag, however many branches request that tag:
\* at every moment the number of primitive invocations is the number of
\* tags the cache holds, and when has_match returns the cache holds exactly
\* the distinct tags that were requested, one invocation for each.
OnePrimitivePerTag ==
    /\ pc \in {"forcing", "done"} => ct_ops = Cardinality(DOMAIN cache)
    /\ pc = "done" =>
          /\ DOMAIN cache = ServedTags
          /\ ct_ops = Cardinality(ServedTags)

\* C18: has_match returned after several branches requested a tag that was
\* already evaluated: fewer primitive invocations than requests.
OnePrimitivePerTagWitness ==
    /\ pc = "done"
    /\ Len(branches) >= 2
    /\ cache_hits >= 2
    /\ ct_ops < Len(Served)

\* the number of primitive operations that forcing lazy performs when
\* nothing is cached: one for every non-constant operation of the
\* computation, each operand counted wherever it occurs
RECURSIVE UncachedOperations(_)
UncachedOperations(lazy) ==
    CASE lazy.call \in {"ct_true", "ct_false", "ct_constant", "c_char"} -> 0
      [] lazy.call = "ct_not" -> UncachedOperations(lazy.a) + 1
      [] OTHER -> UncachedOperations(lazy.a) + UncachedOperations(lazy.b) + 1

\* C19: at the end of a has_match run, cache_hits is the number of primitive
\* operations an uncached run of the same branch list performs, minus
\* ct_ops; that is, cache_hits + ct_ops is the number of requests of
\* non-constant operations.
CacheHitsAreSavedOperations ==
    pc = "done" =>
        /\ cache_hits = UncachedOperations(has_match_lazy(branches)) - ct_ops
        /\ cache_hits + ct_ops = Len(Requests(has_match_lazy(branches)))

\* C19: a has_match run ended with both hits and primitive operations.
CacheHitsAreSavedOperationsWitness ==
    /\ pc = "done"
    /\ cache_hits >= 1
    /\ ct_ops >= 2
    /\ UncachedOperations(has_match_lazy(branches)) > ct_ops

\* lazy is ct_true, ct_false or ct_constant
IsConstant(lazy) == lazy.call \in {"ct_true", "ct_false", "ct_constant"}

\* C20: constants are never cached: ct_constant, ct_true and ct_false are
\* no requests to the cache and leave the cache, ct_ops and cache_hits
\* unchanged (a result that is a constant costs nothing), and no key of the
\* cache is a Constant or CtPos tag: the keys are And, Or, Equal,
\* GreaterOrEqual, LessOrEqual and Not tags only.
ConstantsAreNotCached ==
    /\ \A t \in DOMAIN cache :
          t.tag \in {"And", "Or", "Equal", "GreaterOrEqual", "LessOrEqual", "Not"}
    /\ \A k \in DOMAIN todo : ~IsConstant(todo[k])
    /\ (pc = "done" /\ IsConstant(has_match_lazy(branches)))
          => /\ cache = EmptyCache
             /\ ct_ops = 0
             /\ cache_hits = 0

\* C20: has_match returned after comparing a content byte with a constant:
\* the constant is an operand of a cached tag and no key itself.
ConstantsAreNotCachedWitness ==
    /\ pc = "done"
    /\ \E t \in DOMAIN cache :
          /\ t.tag = "Equal"
          /\ t.a.tag = "CtPos"
          /\ t.b.tag = "Constant"

\* the tags of the operations that forcing the final branch list requests
FinalTags ==
    LET all == Requests(has_match_lazy(branches))
    IN  { TagOf(all[k]) : k \in DOMAIN all }

\* C21: evaluation is deferred: until branch enumeration is complete there
\* is no execution context and no primitive operation has run; the context
\* exists only while has_match forces the final branch list and after it;
\* and the operations performed are those of the final branch list only, so
\* a partial branch that was dropped costs nothing (with no final branch
\* nothing is performed at all).
DeferredEvaluation ==
    /\ pc \in {"start", "parsed", "built", "abort", "error"}
          => /\ exec = "none"
             /\ cache = EmptyCache
             /\ ct_ops = 0
             /\ cache_hits = 0
    /\ exec = "live" => pc \in {"forcing", "done"}
    /\ pc = "done"
          => /\ DOMAIN cache \subseteq FinalTags
             /\ branches = << >> => (ct_ops = 0 /\ cache_hits = 0)

\* C21: has_match returned after forcing a final branch, while a partial
\* branch of the first element of a Seq, dropped because the next element
\* yielded no sub-branch, was never evaluated.
DeferredEvaluationWitness ==
    /\ pc = "done"
    /\ ct_ops >= 1
    /\ parsed.v.type = "Seq"
    /\ Len(parsed.v.re_xs) >= 2
    /\ \E i \in 0..(Len(content) - 1) :
          LET firsts == build_branches(ct_content, parsed.v.re_xs[1], i).out
          IN  \E k \in DOMAIN firsts :
                /\ ~IsConstantCall(firsts[k][1])
                /\ TagOf(firsts[k][1]) \notin DOMAIN cache
                /\ expand(ct_content, <<firsts[k]>>, parsed.v.re_xs[2]).out
                      = << >>

\* the value of tag t evaluated directly over the content plaintext: CtPos
\* reads the content byte, Constant is its value, the comparisons and the
\* logical operations yield a bit
RECURSIVE Plain(_)
Plain(t) ==
    CASE t.tag = "Constant" -> t.c
      [] t.tag = "CtPos" -> as_bytes(content)[t.at + 1]
      [] t.tag = "Equal" -> Bit(Plain(t.a) = Plain(t.b))
      [] t.tag = "GreaterOrEqual" -> Bit(Plain(t.a) >= Plain(t.b))
      [] t.tag = "LessOrEqual" -> Bit(Plain(t.a) <= Plain(t.b))
      [] t.tag = "And" -> Bit(Plain(t.a) = 1 /\ Plain(t.b) = 1)
      [] t.tag = "Or" -> Bit(Plain(t.a) = 1 \/ Plain(t.b) = 1)
      [] t.tag = "Not" -> 1 - Plain(t.a)

\* the plaintext of the ciphertext that forcing lazy yields in a context
\* that caches nothing: every operation invokes its primitive
RECURSIVE ForcedWithoutCache(_)
ForcedWithoutCache(lazy) ==
    CASE lazy.call = "ct_true" -> create_trivial_radix(1)
      [] lazy.call = "ct_false" -> create_trivial_radix(0)
      [] lazy.call = "ct_constant" -> create_trivial_radix(lazy.c)
      [] lazy.call = "c_char" -> ct_content[lazy.at + 1]
      [] lazy.call = "ct_eq" -> unchecked_eq(ForcedWithoutCache(lazy.a),
                                             ForcedWithoutCache(lazy.b))
      [] lazy.call = "ct_ge" -> unchecked_ge(ForcedWithoutCache(lazy.a),
                                             ForcedWithoutCache(lazy.b))
      [] lazy.call = "ct_le" -> unchecked_le(ForcedWithoutCache(lazy.a),
                                             ForcedWithoutCache(lazy.b))
      [] lazy.call = "ct_and" -> unchecked_bitand(ForcedWithoutCache(lazy.a),
                                                  ForcedWithoutCache(lazy.b))
      [] lazy.call = "ct_or" -> unchecked_bitor(ForcedWithoutCache(lazy.a),
                                                ForcedWithoutCache(lazy.b))
      [] lazy.call = "ct_not" -> unchecked_bitxor(ForcedWithoutCache(lazy.a),
                                                  create_trivial_radix(1))

\* the plaintext of operand x of a cached tag: a constant, a content byte,
\* or the cached result of an operation
OperandValue(x) ==
    CASE x.tag = "Constant" -> x.c
      [] x.tag = "CtPos" -> as_bytes(content)[x.at + 1]
      [] OTHER -> cache[x]

\* the entry of tag t is the direct value of its operation on the values of
\* its operands, which are cached as well
EntryIsSound(t) ==
    /\ t.a.tag \in {"Constant", "CtPos"} \/ t.a \in DOMAIN cache
    /\ t.tag = "Not" \/ t.b.tag \in {"Constant", "CtPos"}
                      \/ t.b \in DOMAIN cache
    /\ cache[t] =
          CASE t.tag = "Equal" -> Bit(OperandValue(t.a) = OperandValue(t.b))
            [] t.tag = "GreaterOrEqual" ->
                  Bit(OperandValue(t.a) >= OperandValue(t.b))
            [] t.tag = "LessOrEqual" ->
                  Bit(OperandValue(t.a) <= OperandValue(t.b))
            [] t.tag = "And" ->
                  Bit(OperandValue(t.a) = 1 /\ OperandValue(t.b) = 1)
            [] t.tag = "Or" ->
                  Bit(OperandValue(t.a) = 1 \/ OperandValue(t.b) = 1)
            [] t.tag = "Not" -> 1 - OperandValue(t.a)

\* C22: the cache is sound: in every state of an execution context each
\* cached ciphertext is the value of its tag's operation on the values of
\* its operands, hence (by induction on the tag, checked in full when
\* has_match returns) the value of the tag evaluated directly over the
\* content plaintext; and each branch, and the result of has_match, forced
\* with the cache has the plaintext it has when forced without a cache.
CacheIsSound ==
    /\ \A t \in DOMAIN cache : EntryIsSound(t)
    /\ pc = "done"
          => /\ \A t \in DOMAIN cache : cache[t] = Plain(t)
             /\ \A k \in DOMAIN branches :
                   ct_of(branches[k]) = ForcedWithoutCache(branches[k])
             /\ res.v = ForcedWithoutCache(has_match_lazy(branches))

\* C22: has_match returned 1 after serving, from the cache, a tag that was
\* evaluated before, with comparisons of a content byte at a later position
\* cached both as 0 and as 1.
CacheIsSoundWitness ==
    /\ pc = "done"
    /\ res.v = 1
    /\ cache_hits >= 1
    /\ \E t, u \in DOMAIN cache :
          /\ t.tag = "Equal" /\ t.a.tag = "CtPos" /\ t.a.at >= 1
          /\ u.tag = "Equal" /\ u.a.tag = "CtPos" /\ u.a.at >= 1
          /\ cache[t] = 0
          /\ cache[u] = 1

\* C23: positions stay within the content: for every call
\* build_branches(content, re, c_pos) with c_pos <= content.len(), every
\* returned branch ends at a position p with c_pos <= p <= content.len()
\* (for the parsed expression and for each of its sub-expressions), every
\* recursive call that the call makes, directly or through these calls, has
\* a position <= content.len(), and every index at which content is read
\* is < content.len().
PositionsWithinContent ==
    pc = "parsed" =>
        \A c_pos \in 0..Len(content) :
            /\ \A e \in visits(ct_content, parsed.v, c_pos) :
                  /\ e[1] = "call" => e[2] <= Len(content)
                  /\ e[1] = "index" => e[2] < Len(content)
            /\ \A re \in SubExprs(parsed.v) :
                  LET out == build_branches(ct_content, re, c_pos).out
                  IN  \A k \in DOMAIN out :
                        c_pos <= out[k][2] /\ out[k][2] <= Len(content)

\* C23: build_branches returned, for a Seq, a branch that ends at
\* content.len(), made a recursive call at content.len() and read the last
\* content byte.
PositionsWithinContentWitness ==
    /\ pc = "parsed"
    /\ parsed.v.type = "Seq"
    /\ Len(content) >= 2
    /\ \E k \in DOMAIN build_branches(ct_content, parsed.v, 0).out :
          build_branches(ct_content, parsed.v, 0).out[k][2] = Len(content)
    /\ <<"call", Len(content)>> \in visits(ct_content, parsed.v, 0)
    /\ <<"index", Len(content) - 1>> \in visits(ct_content, parsed.v, 0)

\* C24: the bookkeeping of an execution context: it starts with ct_ops = 0,
\* cache_hits = 0 and an empty cache; after every operation ct_ops is the
\* number of entries of the cache; neither counter ever decreases; and an
\* entry of the cache is never removed and never given another ciphertext.
ExecutionBookkeeping ==
    [][
        /\ (exec = "none" /\ exec' = "live")
            => /\ ct_ops' = 0
               /\ cache_hits' = 0
               /\ cache' = EmptyCache
        /\ exec' = "live" => ct_ops' = Cardinality(DOMAIN cache')
        /\ exec = "live"
            => /\ exec' = "live"
               /\ ct_ops' >= ct_ops
               /\ cache_hits' >= cache_hits
               /\ \A t \in DOMAIN cache :
                     t \in DOMAIN cache' /\ cache'[t] = cache[t]
    ]_vars

\* C24: an execution context holds several entries after several primitive
\* operations and cache hits, and has further requests to serve.
ExecutionBookkeepingWitness ==
    /\ exec = "live"
    /\ pc = "forcing"
    /\ todo # << >>
    /\ ct_ops >= 3
    /\ cache_hits >= 2
    /\ Cardinality(DOMAIN cache) >= 3

====
